---- MODULE Spec2Model ----
(***************************************************************************)
(* Resilient fetch pipeline of the law-office content application:         *)
(* callGeminiWithRetry (the Retrying Invoker), cleanLegalData (the Result  *)
(* Sanitizer) and the fetch operations composed from them.                 *)
(*                                                                         *)
(* JavaScript strings are TLA+ strings handled character by character      *)
(* (Len, Head, Tail, SubSeq, \o).  An asynchronous function is cut at its  *)
(* awaits: every action below is one run-to-completion segment of the      *)
(* event loop.                                                             *)
(***************************************************************************)
EXTENDS Integers, Sequences, FiniteSets, TLC

(***************************************************************************)
(* Bounds of the model.                                                    *)
(***************************************************************************)
\* largest maxRetries argument explored for a direct call of the invoker
MaxAttemptsBound == 3
\* number of invoker calls that may be in flight together
MaxCalls == 2

CallIds == 1..MaxCalls

(***************************************************************************)
(* String primitives of the JavaScript runtime.                            *)
(***************************************************************************)
\* String.prototype.includes
Includes(s, sub) ==
    \E k \in 1..(Len(s) - Len(sub) + 1) : SubSeq(s, k, k + Len(sub) - 1) = sub

\* String.prototype.startsWith
StartsWith(s, prefix) ==
    /\ Len(prefix) <= Len(s)
    /\ SubSeq(s, 1, Len(prefix)) = prefix

(***************************************************************************)
(* Errors an operation can raise.  name is the constructor of the thrown    *)
(* value, status and message are optional properties; defined = FALSE is   *)
(* the value `undefined` itself.                                           *)
(***************************************************************************)
MkError(name, hasStatus, status, hasMessage, message) ==
    [defined |-> TRUE, name |-> name, hasStatus |-> hasStatus, status |-> status,
     hasMessage |-> hasMessage, message |-> message]

\* initial value of `let lastError: any;`
UndefinedError ==
    [defined |-> FALSE, name |-> "", hasStatus |-> FALSE, status |-> 0,
     hasMessage |-> FALSE, message |-> ""]

\* failures of the backend request (ApiError-like objects and plain errors)
ApiErrors ==
    { MkError("ApiError", TRUE, 400, TRUE, "Bad Request"),
      MkError("ApiError", TRUE, 401, TRUE, "API key not valid"),
      MkError("ApiError", TRUE, 429, TRUE, "Too Many Requests"),
      MkError("Error", FALSE, 0, TRUE, "got status: 429"),
      MkError("Error", FALSE, 0, TRUE, "You exceeded your current quota"),
      MkError("ApiError", TRUE, 500, TRUE, "Internal error"),
      MkError("ApiError", TRUE, 503, TRUE, "Service Unavailable"),
      MkError("ApiError", TRUE, 600, TRUE, "Unknown status"),
      MkError("TypeError", FALSE, 0, TRUE, "Failed to fetch"),
      MkError("Object", FALSE, 0, FALSE, "") }

(***************************************************************************)
(* callGeminiWithRetry: classification of a caught error and the delay.    *)
(***************************************************************************)
\* error?.message?.includes('429') || error?.status === 429
\*   || error?.message?.includes('quota')
isRateLimit(error) ==
    \/ (error.hasMessage /\ Includes(error.message, "429"))
    \/ (error.hasStatus /\ error.status = 429)
    \/ (error.hasMessage /\ Includes(error.message, "quota"))

\* error?.status >= 500
isServerError(error) ==
    error.hasStatus /\ error.status >= 500

\* if (isRateLimit || isServerError)
isRetryable(error) ==
    isRateLimit(error) \/ isServerError(error)

RECURSIVE Pow2(_)
\* Math.pow(2, n)
Pow2(n) == IF n <= 0 THEN 1 ELSE 2 * Pow2(n - 1)

\* mutation: linear instead of exponential backoff
BackoffDelayLinear(initialDelay, i) == initialDelay * (i + 1)

\* mutation: the exponent starts at 1
BackoffDelayFromTwo(initialDelay, i) == initialDelay * Pow2(i + 1)

\* const delay = initialDelay * Math.pow(2, i)
BackoffDelay(initialDelay, i) == initialDelay * Pow2(i)

(***************************************************************************)
(* JavaScript values held by the fields of a content record.               *)
(***************************************************************************)
Undefined == [t |-> "undefined", s |-> ""]
Str(s) == [t |-> "string", s |-> s]
\* the value null
Null == [t |-> "null", s |-> ""]
\* a number, held as its decimal text
Num(digits) == [t |-> "number", s |-> digits]

\* Boolean(v), as used by `||` and by filter(Boolean)
Truthy(v) ==
    \/ (v.t = "string" /\ v.s # "")
    \/ (v.t = "number" /\ v.s # "0")

\* a || b
JsOr(a, b) == IF Truthy(a) THEN a ELSE b

\* conversion of a value inside a template literal
ToText(v) == IF v.t \in {"string", "number"} THEN v.s ELSE v.t

UpperCase == <<"A", "B", "C", "D", "E", "F", "G", "H", "I", "J", "K", "L", "M",
               "N", "O", "P", "Q", "R", "S", "T", "U", "V", "W", "X", "Y", "Z">>
LowerCase == <<"a", "b", "c", "d", "e", "f", "g", "h", "i", "j", "k", "l", "m",
               "n", "o", "p", "q", "r", "s", "t", "u", "v", "w", "x", "y", "z">>

LowerChar(c) ==
    IF \E k \in 1..Len(UpperCase) : UpperCase[k] = c
    THEN LowerCase[CHOOSE k \in 1..Len(UpperCase) : UpperCase[k] = c]
    ELSE c

RECURSIVE ToLowerCase(_)
\* String.prototype.toLowerCase
ToLowerCase(s) ==
    IF s = "" THEN "" ELSE LowerChar(Head(s)) \o ToLowerCase(Tail(s))

(***************************************************************************)
(* Content records: the fields cleanLegalData reads.                       *)
(***************************************************************************)
TextFields == <<"title", "name", "caseName", "summary", "description">>
UrlFields == <<"url", "link", "sourceUrl", "downloadUrl", "freeAlternativeUrl",
               "secondarySourceUrl", "pdfUrl", "downloadLink", "freeDownloadLink">>
RecordFields == TextFields \o UrlFields

FieldNames == {RecordFields[k] : k \in 1..Len(RecordFields)}

\* a record with no field populated
EmptyRecord == [f \in FieldNames |-> Undefined]

\* the batch entry `null` (not an object): reading a property of it throws
NullEntry == [f \in FieldNames |-> Null]

(***************************************************************************)
(* cleanLegalData                                                          *)
(***************************************************************************)
\* const errorPatterns = [/404/i, /page not found/i, ...]: literal patterns,
\* tested against a text that is already lower case
errorPatterns == <<"404", "page not found", "oops", "error 404", "not found",
                   "access denied", "maintenance", "forbidden">>

\* const blockedDomains = [...]
blockedDomains == <<"livelaw.in", "barandbench.com", "scconline.com", "manupatra.com">>

\* the mis-encoded ellipsis of `url.includes('â€¦')`
MisencodedEllipsis == "â€¦"

\* `${item.title || item.name || item.caseName || ''} ${item.summary || item.description || ''}`.toLowerCase()
textToCheck(item) ==
    ToLowerCase(
        ToText(JsOr(item.title, JsOr(item.name, JsOr(item.caseName, Str("")))))
        \o " " \o
        ToText(JsOr(item.summary, JsOr(item.description, Str("")))))

\* [item.url, ..., item.freeDownloadLink].filter(Boolean) as string[]: the
\* truthy values, whatever their type
urlValues(item) ==
    LET all == [k \in 1..Len(UrlFields) |-> item[UrlFields[k]]]
        IsTruthy(v) == Truthy(v)
    IN  SelectSeq(all, IsTruthy)

\* the same array read as strings
urlsToCheck(item) ==
    [k \in 1..Len(urlValues(item)) |-> urlValues(item)[k].s]

\* errorPatterns.some(pattern => pattern.test(textToCheck))
hasErrorText(item) ==
    \E p \in 1..Len(errorPatterns) :
        Includes(textToCheck(item), errorPatterns[p])

\* blockedDomains.some(domain => url.toLowerCase().includes(domain))
isBlockedUrl(url) ==
    \E d \in 1..Len(blockedDomains) :
        Includes(ToLowerCase(url), blockedDomains[d])

\* urlsToCheck.some(url => blockedDomains.some(...))
hasBlockedDomain(item) ==
    \E u \in 1..Len(urlsToCheck(item)) : isBlockedUrl(urlsToCheck(item)[u])

\* the callback of `const hasBadUrl = urlsToCheck.some(url => { ... })`
isBadUrl(url) ==
    LET lowerUrl == ToLowerCase(url)
    IN  IF ~StartsWith(lowerUrl, "http") THEN TRUE
        ELSE IF Len(lowerUrl) < 15 THEN TRUE
        ELSE IF Includes(url, "...") \/ Includes(url, MisencodedEllipsis) THEN TRUE
        ELSE IF Includes(lowerUrl, "example.com") \/ Includes(lowerUrl, "placeholder") THEN TRUE
        ELSE FALSE

hasBadUrl(item) ==
    \E u \in 1..Len(urlsToCheck(item)) : isBadUrl(urlsToCheck(item)[u])

\* mutation: the test urlsToCheck.length > 0 is missing
keepItemWithoutUrlCount(item) ==
    /\ ~hasErrorText(item)
    /\ ~hasBadUrl(item)
    /\ ~hasBlockedDomain(item)

\* return !hasErrorText && !hasBadUrl && !hasBlockedDomain && urlsToCheck.length > 0
keepItem(item) ==
    /\ ~hasErrorText(item)
    /\ ~hasBadUrl(item)
    /\ ~hasBlockedDomain(item)
    /\ Len(urlsToCheck(item)) > 0

\* mutation: the surviving records are returned in reverse order
cleanLegalDataReversed(data) ==
    LET kept == SelectSeq(data, keepItem)
    IN  [k \in 1..Len(kept) |-> kept[Len(kept) + 1 - k]]

\* mutation: the titles of the surviving records are normalised
cleanLegalDataRepairing(data) ==
    LET kept == SelectSeq(data, keepItem)
    IN  [k \in 1..Len(kept) |->
            [kept[k] EXCEPT !.title = IF @.t = "string" THEN Str(ToLowerCase(@.s)) ELSE @]]

\* mutation: the first surviving record is skipped
cleanLegalDataDropsFirst(data) ==
    LET kept == SelectSeq(data, keepItem)
    IN  IF kept = <<>> THEN kept ELSE Tail(kept)

\* data.filter(item => ...), when no callback raises
cleanLegalData(data) == SelectSeq(data, keepItem)

\* url.toLowerCase() raises for a value that is not a string; `some` stops at
\* the first url for which its callback is true, so the scan of
\* hasBlockedDomain reaches a non-string url only if no earlier url is blocked
blockedScanThrows(item) ==
    \E m \in 1..Len(urlValues(item)) :
        /\ urlValues(item)[m].t # "string"
        /\ \A j \in 1..(m - 1) : ~isBlockedUrl(urlsToCheck(item)[j])

\* the scan of hasBadUrl reaches a non-string url only if no earlier url is bad
badScanThrows(item) ==
    \E m \in 1..Len(urlValues(item)) :
        /\ urlValues(item)[m].t # "string"
        /\ \A j \in 1..(m - 1) : ~isBadUrl(urlsToCheck(item)[j])

\* the filter callback raises a TypeError for this entry
itemThrows(item) ==
    \/ item = NullEntry
    \/ blockedScanThrows(item)
    \/ badScanThrows(item)

\* the TypeError raised for the entry
itemError(item) ==
    IF item = NullEntry
    THEN [defined |-> TRUE, name |-> "TypeError", hasStatus |-> FALSE, status |-> 0,
          hasMessage |-> TRUE,
          message |-> "Cannot read properties of null (reading 'title')"]
    ELSE [defined |-> TRUE, name |-> "TypeError", hasStatus |-> FALSE, status |-> 0,
          hasMessage |-> TRUE, message |-> "url.toLowerCase is not a function"]

\* one call of cleanLegalData: the filtered batch, or the error of the first
\* entry whose callback raises
cleanLegalDataCall(data) ==
    IF \E k \in 1..Len(data) : itemThrows(data[k])
    THEN [ok |-> FALSE, value |-> <<>>,
          error |-> itemError(data[CHOOSE k \in 1..Len(data) :
                                      /\ itemThrows(data[k])
                                      /\ \A j \in 1..(k - 1) : ~itemThrows(data[j])])]
    ELSE [ok |-> TRUE, value |-> cleanLegalData(data),
          error |-> [defined |-> FALSE, name |-> "", hasStatus |-> FALSE, status |-> 0,
                     hasMessage |-> FALSE, message |-> ""]]

(***************************************************************************)
(* Responses of the backend and JSON.parse.                                *)
(***************************************************************************)
\* largest number of records in one response batch
MaxBatch == 2

Rec(fields) == fields @@ EmptyRecord

GoodNews ==
    Rec([title |-> Str("Right to Privacy upheld"),
         summary |-> Str("Court affirms privacy"),
         url |-> Str("https://www.verdictum.in/privacy")])
BlockedNews ==
    Rec([title |-> Str("Bail granted"),
         summary |-> Str("High Court order"),
         url |-> Str("https://www.livelaw.in/foo")])
ErrorPageNews ==
    Rec([title |-> Str("Error 404 - Page Not Found"),
         summary |-> Str("Oops"),
         url |-> Str("https://www.verdictum.in/missing")])
ShortUrlNews ==
    Rec([title |-> Str("Tax ruling"),
         summary |-> Str("Bench decides"),
         url |-> Str("http://x.co")])
NoUrlNews ==
    Rec([title |-> Str("Circular issued"),
         summary |-> Str("Registry notice")])
GoodAct ==
    Rec([name |-> Str("Indian Contract Act"),
         description |-> Str("Law of contracts"),
         sourceUrl |-> Str("https://www.indiacode.nic.in/handle/1"),
         pdfUrl |-> Str("https://www.indiacode.nic.in/bitstream/1.pdf")])

RecordPool ==
    {GoodNews, BlockedNews, ErrorPageNews, ShortUrlNews, NoUrlNews, GoodAct, NullEntry}

\* the batches a response can carry
\* a batch of three records, a full page for loadData
FullPage == <<GoodNews, GoodAct, GoodNews>>

ResponseBatches ==
    UNION {[1..n -> RecordPool] : n \in 0..MaxBatch} \cup {FullPage}

RECURSIVE StringifyFields(_, _, _)
\* the "name":"value" members of a record from field k on; sep precedes the next member
StringifyFields(r, k, sep) ==
    IF k > Len(RecordFields) THEN ""
    ELSE IF r[RecordFields[k]].t = "string"
         THEN sep \o "\"" \o RecordFields[k] \o "\":\"" \o r[RecordFields[k]].s \o "\""
              \o StringifyFields(r, k + 1, ",")
         ELSE IF r[RecordFields[k]].t = "number"
         THEN sep \o "\"" \o RecordFields[k] \o "\":" \o r[RecordFields[k]].s
              \o StringifyFields(r, k + 1, ",")
         ELSE StringifyFields(r, k + 1, sep)

RECURSIVE StringifyItems(_, _)
StringifyItems(b, k) ==
    IF k > Len(b) THEN ""
    ELSE (IF k > 1 THEN "," ELSE "")
         \o (IF b[k] = NullEntry THEN "null"
             ELSE "{" \o StringifyFields(b[k], 1, "") \o "}")
         \o StringifyItems(b, k + 1)

\* the JSON text of a batch
JSONStringify(b) == "[" \o StringifyItems(b, 1) \o "]"

\* response texts that are not JSON
MalformedTexts ==
    { "quota exceeded", "Rate limit 429", "Oops", "<html>Bad Gateway</html>" }

\* response texts that are JSON but not an array
NonArrayTexts == { "{}" }

\* every batch paired with its JSON text
BatchTexts == {[text |-> JSONStringify(b), value |-> b] : b \in ResponseBatches}

\* values of response.text
ResponseTexts ==
    {Str(p.text) : p \in BatchTexts}
    \cup {Str(t) : t \in MalformedTexts \cup NonArrayTexts}
    \cup {Str(""), Undefined}

\* message of the SyntaxError JSON.parse raises for a text whose first
\* character cannot start a JSON value (V8: the whole source when it is
\* shorter than 21 characters, else its first 10 characters)
ParseErrorMessage(text) ==
    "Unexpected token '" \o Head(text) \o "', \""
    \o (IF Len(text) < 21 THEN text \o "\"" ELSE SubSeq(text, 1, 10) \o "\"...")
    \o " is not valid JSON"

\* JSON texts of the other operations, with the values they denote: the
\* extraction of an item, study materials, search suggestions
ExtractTextA == "{\"text\":\"Privacy is a fundamental right\",\"mentions\":[]}"
ExtractTextB == "{\"text\":\"An agreement enforceable by law\",\"mentions\":[]}"
MaterialsText == "{\"flashcards\":[],\"briefing\":{\"conclusion\":\"Valid\"}}"
SuggestionsText == "[\"article 21\",\"article 14\"]"

LiteralTexts == {ExtractTextA, ExtractTextB, MaterialsText, SuggestionsText}

\* the value a literal text denotes
LiteralValue(text) ==
    CASE text = ExtractTextA ->
             [text |-> "Privacy is a fundamental right", mentions |-> <<>>]
      [] text = ExtractTextB ->
             [text |-> "An agreement enforceable by law", mentions |-> <<>>]
      [] text = MaterialsText ->
             [flashcards |-> <<>>, briefing |-> [conclusion |-> "Valid"]]
      [] text = SuggestionsText -> <<"article 21", "article 14">>

\* JSON.parse(text): [threw, isArray, value, error]
JSONParse(text) ==
    IF \E p \in BatchTexts : p.text = text
    THEN [threw |-> FALSE, isArray |-> TRUE,
          value |-> (CHOOSE p \in BatchTexts : p.text = text).value,
          error |-> UndefinedError]
    ELSE IF text \in LiteralTexts
    THEN [threw |-> FALSE, isArray |-> text = SuggestionsText,
          value |-> LiteralValue(text), error |-> UndefinedError]
    ELSE IF text \in NonArrayTexts
    THEN [threw |-> FALSE, isArray |-> FALSE, value |-> <<>>, error |-> UndefinedError]
    ELSE [threw |-> TRUE, isArray |-> FALSE, value |-> <<>>,
          error |-> MkError("SyntaxError", FALSE, 0, TRUE, ParseErrorMessage(text))]

(***************************************************************************)
(* The wrapped operation of a fetch: what it does with the outcome of      *)
(* ai.models.generateContent.                                              *)
(***************************************************************************)
\* outcome of one run of an operation
\* mutation: the value of the attempt is dropped on the way out
ReturnedNothing(v) == [ok |-> TRUE, value |-> <<>>, error |-> UndefinedError]

Returned(v) == [ok |-> TRUE, value |-> v, error |-> UndefinedError]
Threw(e) == [ok |-> FALSE, value |-> <<>>, error |-> e]

\* mutation: the parsed batch is returned without cleaning
ParseWithoutClean(responseText) ==
    LET parsed == JSONParse(JsOr(responseText, Str("[]")).s)
    IN  IF parsed.threw THEN Threw(parsed.error)
        ELSE IF ~parsed.isArray
        THEN Threw(MkError("TypeError", FALSE, 0, TRUE, "data.filter is not a function"))
        ELSE Returned(parsed.value)

\* return cleanLegalData<T>(JSON.parse(response.text || "[]"))
ParseAndClean(responseText) ==
    LET parsed == JSONParse(JsOr(responseText, Str("[]")).s)
    IN  IF parsed.threw THEN Threw(parsed.error)
        ELSE IF ~parsed.isArray
        THEN Threw(MkError("TypeError", FALSE, 0, TRUE, "data.filter is not a function"))
        ELSE cleanLegalDataCall(parsed.value)

\* return JSON.parse(response.text || "{}"), or || "[]"
ParseOnly(responseText, default) ==
    LET parsed == JSONParse(JsOr(responseText, Str(default)).s)
    IN  IF parsed.threw THEN Threw(parsed.error) ELSE Returned(parsed.value)

\* the operation's outcome for every response text
OutcomeTable == {[text |-> text, outcome |-> ParseAndClean(text)] : text \in ResponseTexts}

\* the settlement of the operation for a response text, looked up
OperationOutcome(text) == (CHOOSE p \in OutcomeTable : p.text = text).outcome

\* every error object a catch block of the invoker can receive
CaughtErrors == ApiErrors \cup {p.outcome.error : p \in OutcomeTable}

\* isRateLimit || isServerError of each of them, computed once
RetryableTable == {[error |-> error, retry |-> isRetryable(error)] : error \in CaughtErrors}

Retryable(error) == (CHOOSE p \in RetryableTable : p.error = error).retry

(***************************************************************************)
(* Callers of callGeminiWithRetry.                                         *)
(***************************************************************************)
\* maxRetries: number = 3
DefaultMaxRetries == 3
\* initialDelay: number = 1000
DefaultInitialDelay == 1000

\* the fetch-batch family: callGeminiWithRetry(op).catch(() => [])
FetchKinds == {"fetchLegalNews", "fetchAcademyArticles", "fetchTamilNaduLegalData",
               "fetchSupremeCourtData", "fetchLandmarkJudgments", "fetchBareActs"}

\* "invoke" is a direct call of callGeminiWithRetry with an arbitrary operation
Kinds == {"invoke"} \cup FetchKinds

\* the other exported operations, each around one generateContent request
OtherKinds == {"extractResourceContent", "generateStudyMaterials", "fetchSearchSuggestions"}

BackendKinds == FetchKinds \cup OtherKinds

\* what the operation of a caller does with a response text
OperationOf(k, text) ==
    IF k \in FetchKinds THEN OperationOutcome(text)
    ELSE IF k = "fetchSearchSuggestions" THEN ParseOnly(text, "[]")
    ELSE ParseOnly(text, "{}")

\* initialDelay arguments explored for a direct call
Delays == {DefaultInitialDelay, 300}

\* results an arbitrary operation can return
GenericValues == {<<>>, <<GoodNews>>}

\* state of the promise a fetch returns
Pending == [state |-> "pending", value |-> <<>>, error |-> UndefinedError]
Resolved(v) == [state |-> "resolved", value |-> v, error |-> UndefinedError]
Rejected(e) == [state |-> "rejected", value |-> <<>>, error |-> e]

\* mutation: no .catch, the failure of the invoker propagates
FetchSettleRethrows(o) == IF o.ok THEN Resolved(o.value) ELSE Rejected(o.error)

\* callGeminiWithRetry(...).catch(() => []) applied to the invoker's outcome
FetchSettle(o) == IF o.ok THEN Resolved(o.value) ELSE Resolved(<<>>)

\* the text extractResourceContent resolves to when its call fails
ExtractionFailure ==
    [text |-> "Extraction failed due to heavy traffic. Please try again in a moment.",
     mentions |-> <<>>]

\* extractResourceContent: .catch(() => ({ text: "Extraction failed ...", mentions: [] }))
ExtractSettle(o) == IF o.ok THEN Resolved(o.value) ELSE Resolved(ExtractionFailure)

\* mutation: generateStudyMaterials with the fallback of the fetches
GenerateSettleCaught(o) == IF o.ok THEN Resolved(o.value) ELSE Resolved(<<>>)

\* generateStudyMaterials: no .catch, the promise is that of the invoker
GenerateSettle(o) == IF o.ok THEN Resolved(o.value) ELSE Rejected(o.error)

\* the promise a caller of kind k returns, from the invoker's outcome
Settle(k, o) ==
    CASE k \in FetchKinds -> FetchSettle(o)
      [] k = "fetchSearchSuggestions" -> FetchSettle(o)
      [] k = "extractResourceContent" -> ExtractSettle(o)
      [] k = "generateStudyMaterials" -> GenerateSettle(o)

(***************************************************************************)
(* State.                                                                  *)
(***************************************************************************)
VARIABLES
    calls,          \* the calls of the scenario
    kind,           \* kind[c]: which caller issued call c
    pc,             \* pc[c]: "idle", "await" (operation in flight), "sleep"
                    \*        (backoff timer armed), "resolved", "rejected"
    maxRetries,     \* maxRetries[c]: argument of the call
    initialDelay,   \* initialDelay[c]: argument of the call
    i,              \* i[c]: loop counter
    lastError,      \* lastError[c]
    outcome,        \* outcome[c]: what callGeminiWithRetry returned or threw
    fetched,        \* fetched[c]: the promise of the fetch around call c
    response,       \* response[c]: response.text of the latest backend response
    invocations,    \* invocations[c]: number of times apiCall() was invoked
    errors,         \* errors[c]: the errors caught, one per failed attempt
    waited,         \* waited[c]: the delays passed to setTimeout, in order
    warned          \* warned[c]: the console.warn messages of the call

\* a caller of cleanLegalData on its own
VARIABLES
    spc,            \* "idle", "ready" (batch in hand), "cleaned", "recleaned"
    batch,           \* the batch passed to cleanLegalData
    given,          \* the batch as the caller built it
    cleaned,        \* outcome of cleanLegalData(batch)
    recleaned       \* outcome of cleanLegalData applied to its own result

\* the App component and the handlers that await a call
VARIABLES
    ui,             \* the useState values of App
    arg,            \* arg[c]: the argument of the handler that issued call c
    awaiting        \* the calls whose handler is suspended at its await

callVars == <<calls, kind, pc, maxRetries, initialDelay, i, lastError, outcome,
              fetched, response, invocations, errors, waited, warned>>

cleanVars == <<spc, batch, given, cleaned, recleaned>>

appVars == <<ui, arg, awaiting>>

vars == <<calls, kind, pc, maxRetries, initialDelay, i, lastError, outcome,
          fetched, response, invocations, errors, waited, warned,
          spc, batch, given, cleaned, recleaned, ui, arg, awaiting>>

NoOutcome == [ok |-> FALSE, value |-> <<>>, error |-> UndefinedError]

InitCalls(cs) ==
    /\ calls = cs
    /\ kind = [c \in CallIds |-> "invoke"]
    /\ pc = [c \in CallIds |-> "idle"]
    /\ maxRetries = [c \in CallIds |-> DefaultMaxRetries]
    /\ initialDelay = [c \in CallIds |-> DefaultInitialDelay]
    /\ i = [c \in CallIds |-> 0]
    /\ lastError = [c \in CallIds |-> UndefinedError]
    /\ outcome = [c \in CallIds |-> NoOutcome]
    /\ fetched = [c \in CallIds |-> Pending]
    /\ response = [c \in CallIds |-> Undefined]
    /\ invocations = [c \in CallIds |-> 0]
    /\ errors = [c \in CallIds |-> <<>>]
    /\ waited = [c \in CallIds |-> <<>>]
    /\ warned = [c \in CallIds |-> <<>>]

\* cleanLegalData is not called on its own
NoClean ==
    /\ spc = "idle"
    /\ batch = <<>>
    /\ given = <<>>
    /\ cleaned = NoOutcome
    /\ recleaned = NoOutcome

\* the tabs that show fetched lists, and the two that do not
ContentTabs == {"NEWS", "ARTICLES", "ACADEMY", "JUDGMENTS", "BARE_ACTS",
                "TAMIL_NADU", "SUPREME_COURT"}
StaticTabs == {"ABOUT", "STUDY_LAB"}

\* the state setter that receives the batch loaded for a tab
ListOf(tab) ==
    CASE tab = "NEWS" -> "news"
      [] tab \in {"ACADEMY", "ARTICLES"} -> "articles"
      [] tab = "TAMIL_NADU" -> "tnData"
      [] tab = "SUPREME_COURT" -> "scData"
      [] tab = "JUDGMENTS" -> "judgments"
      [] tab = "BARE_ACTS" -> "acts"

\* the useState initial values; lineHeight is kept in tenths (1.6 is 16).
\* effectPending: the effect on [activeTab] is due, as it is after the first
\* render and after every render that changed activeTab
UiInit ==
    [effectPending |-> TRUE,
     activeTab |-> "NEWS", isInitialLoading |-> TRUE, hasMore |-> TRUE,
     page |-> 1, searchQuery |-> "",
     viewerItem |-> Null, extractedData |-> Null, isExtracting |-> FALSE,
     fontSize |-> 18, lineHeight |-> 16, showAppearanceMenu |-> FALSE,
     labInput |-> "", isLabGenerating |-> FALSE, studyMaterials |-> Null,
     labTab |-> "brief",
     news |-> <<>>, articles |-> <<>>, tnData |-> <<>>, scData |-> <<>>,
     judgments |-> <<>>, acts |-> <<>>]

\* App is not part of the scenario
NoApp ==
    /\ ui = UiInit
    /\ arg = [c \in CallIds |-> Undefined]
    /\ awaiting = {}

\* one call, run alone
Init == InitCalls({1}) /\ NoClean /\ NoApp

\* two calls issued together
ConcInit == InitCalls({1, 2}) /\ NoClean /\ NoApp

(***************************************************************************)
(* Inputs explored.  With two calls in flight the universe of outcomes is  *)
(* narrowed to one direct call and one fetch, two retryable errors and one *)
(* Terminal error, one good and one unparsable response.                   *)
(***************************************************************************)
\* largest maxRetries argument of a direct call when two calls are in flight
MaxConcAttempts == 2

Concurrent == Cardinality(calls) > 1

ConcErrors ==
    { MkError("ApiError", TRUE, 429, TRUE, "Too Many Requests"),
      MkError("ApiError", TRUE, 503, TRUE, "Service Unavailable"),
      MkError("ApiError", TRUE, 400, TRUE, "Bad Request") }

ConcTexts == { Str("quota exceeded"), Str(JSONStringify(<<GoodNews, BlockedNews>>)) }

KindsCalled == IF Concurrent THEN {"invoke", "fetchLegalNews"} ELSE Kinds

\* mutation: the fetches pass a budget of their own
BudgetsOfAnyCaller(k) ==
    IF Concurrent THEN 1..MaxConcAttempts ELSE 0..MaxAttemptsBound

\* the budget a caller of kind k passes: the fetches pass none
BudgetsOf(k) ==
    IF k # "invoke" THEN {DefaultMaxRetries}
    ELSE IF Concurrent THEN 1..MaxConcAttempts
    ELSE 0..MaxAttemptsBound

DelaysOf(k) == IF k = "invoke" THEN Delays ELSE {DefaultInitialDelay}

ErrorsRaised == IF Concurrent THEN ConcErrors ELSE ApiErrors

TextsReceived == IF Concurrent THEN ConcTexts ELSE ResponseTexts

\* failures of generateContent met by the operations App calls
AppErrors ==
    { MkError("ApiError", TRUE, 429, TRUE, "Too Many Requests"),
      MkError("ApiError", TRUE, 400, TRUE, "Bad Request") }

\* response texts of the other operations: the answer to the request made
\* for argument a, an unparsable text, no text
AppTexts(k, a) ==
    CASE k = "extractResourceContent" ->
             {Str(IF a.url = "https://www.verdictum.in/privacy"
                  THEN ExtractTextA ELSE ExtractTextB), Str("Oops")}
      [] k = "generateStudyMaterials" -> {Str(MaterialsText), Str("Oops"), Undefined}
      [] k = "fetchSearchSuggestions" -> {Str(SuggestionsText), Str("Oops"), Undefined}

\* response texts of the fetch loadData awaits: an unparsable text, a batch
\* of two records of which one is dropped, a full page
LoadTexts == ConcTexts \cup {Str(JSONStringify(FullPage))}

ErrorsFor(c) ==
    IF kind[c] \in OtherKinds \/ c \in awaiting THEN AppErrors ELSE ErrorsRaised

TextsFor(c) ==
    IF kind[c] \in OtherKinds THEN AppTexts(kind[c], arg[c])
    ELSE IF c \in awaiting THEN LoadTexts
    ELSE TextsReceived

(***************************************************************************)
(* callGeminiWithRetry, segment by segment.                                *)
(***************************************************************************)
\* mutation: off-by-one loop bound
LoopContinuesInclusive(idx, max) == idx <= max

\* mutation: the body runs once before the bound is tested (do ... while)
LoopContinuesDoWhile(idx, max) == idx = 0 \/ idx < max

\* for (...; i < maxRetries; ...)
LoopContinues(idx, max) == idx < max

\* mutation: only the first error is remembered
CaughtErrorKeepsFirst(previous, error) == IF previous.defined THEN previous ELSE error

\* lastError = error
CaughtError(previous, error) == error

\* mutation: lastError is one variable of the module, shared by all calls
ErrorSlotShared(c) == 1

\* `let lastError` is a local of the invocation: call c has its own
ErrorSlot(c) == c

\* mutation: the rethrow is missing, every error is retried
AfterCatchAlwaysRetries(error) == "sleep"

\* if (isRateLimit || isServerError) { wait; continue } else throw error
AfterCatch(error) == IF Retryable(error) THEN "sleep" ELSE "rejected"

\* the promise settles: the .catch of a fetch runs in the same turn
Finish(c, k, o) ==
    /\ pc' = [pc EXCEPT ![c] = IF o.ok THEN "resolved" ELSE "rejected"]
    /\ outcome' = [outcome EXCEPT ![c] = o]
    /\ fetched' = [fetched EXCEPT ![c] =
                      IF k \in BackendKinds THEN Settle(k, o) ELSE @]

\* loop head with counter idx: invoke apiCall(), or leave the loop and
\* `throw lastError`
LoopHead(c, k, idx, max) ==
    /\ i' = [i EXCEPT ![c] = idx]
    /\ IF LoopContinues(idx, max)
       THEN /\ invocations' = [invocations EXCEPT ![c] = @ + 1]
            /\ pc' = [pc EXCEPT ![c] = "await"]
            /\ UNCHANGED <<outcome, fetched>>
       ELSE /\ Finish(c, k, Threw(lastError[ErrorSlot(c)]))
            /\ UNCHANGED invocations

\* callGeminiWithRetry(apiCall, m, d) as call c of a caller of kind k: entry
\* of the function up to the first await
Start(c, k, m, d) ==
    /\ c \in calls
    /\ pc[c] = "idle"
    /\ kind' = [kind EXCEPT ![c] = k]
    /\ maxRetries' = [maxRetries EXCEPT ![c] = m]
    /\ initialDelay' = [initialDelay EXCEPT ![c] = d]
    /\ LoopHead(c, k, 0, m)
    /\ UNCHANGED <<calls, lastError, response, errors, waited, warned>>

\* a caller starts call c
Call(c) ==
    /\ \E k \in KindsCalled :
       \E m \in BudgetsOf(k) :
       \E d \in DelaysOf(k) : Start(c, k, m, d)
    /\ UNCHANGED <<cleanVars, appVars>>

\* catch (error) { ... } of attempt i[c]
Catch(c, error) ==
    /\ lastError' = [lastError EXCEPT ![ErrorSlot(c)] = CaughtError(@, error)]
    /\ errors' = [errors EXCEPT ![c] = Append(@, error)]
    /\ IF AfterCatch(error) = "sleep"
       THEN LET delay == BackoffDelay(initialDelay[c], i[c])
            IN  /\ warned' = [warned EXCEPT ![c] =
                                 Append(@, [attempt |-> i[c] + 1,
                                            of |-> maxRetries[c],
                                            delay |-> delay])]
                /\ waited' = [waited EXCEPT ![c] = Append(@, delay)]
                /\ pc' = [pc EXCEPT ![c] = "sleep"]
                /\ UNCHANGED <<outcome, fetched>>
       ELSE /\ Finish(c, kind[c], Threw(error))
            /\ UNCHANGED <<warned, waited>>
    /\ UNCHANGED <<calls, kind, maxRetries, initialDelay, i, invocations>>

\* return await apiCall()
Return(c, v) ==
    /\ Finish(c, kind[c], Returned(v))
    /\ UNCHANGED <<calls, kind, maxRetries, initialDelay, i, lastError,
                   invocations, errors, waited, warned>>

\* the operation of a direct call returns a value
ApiCallReturns(c) ==
    /\ pc[c] = "await" /\ kind[c] = "invoke"
    /\ \E v \in GenericValues : Return(c, v)
    /\ UNCHANGED response
    /\ UNCHANGED <<cleanVars, appVars>>

\* the operation of a direct call raises an error
ApiCallThrows(c) ==
    /\ pc[c] = "await" /\ kind[c] = "invoke"
    /\ \E e \in ErrorsRaised : Catch(c, e)
    /\ UNCHANGED response
    /\ UNCHANGED <<cleanVars, appVars>>

\* generateContent resolves: the operation parses (and cleans) the text;
\* what this does to the invoker and to the promise of its caller
Responds(c) ==
    /\ pc[c] = "await" /\ kind[c] \in BackendKinds
    /\ \E text \in TextsFor(c) :
          /\ response' = [response EXCEPT ![c] = text]
          /\ LET o == OperationOf(kind[c], text)
             IN  IF o.ok THEN Return(c, o.value) ELSE Catch(c, o.error)

\* generateContent rejects
Fails(c) ==
    /\ pc[c] = "await" /\ kind[c] \in BackendKinds
    /\ \E e \in ErrorsFor(c) : Catch(c, e)
    /\ UNCHANGED response

\* generateContent of a fetch resolves, nothing awaits the fetch
BackendResponds(c) ==
    /\ Responds(c)
    /\ UNCHANGED <<cleanVars, appVars>>

\* generateContent of a fetch rejects, nothing awaits the fetch
BackendFails(c) ==
    /\ Fails(c)
    /\ UNCHANGED <<cleanVars, appVars>>

\* mutation: the promise around the timer is never resolved
TimerNeverResolves(delay) == FALSE

\* new Promise(resolve => setTimeout(resolve, delay)): the callback of the
\* timer is resolve itself
TimerResolves(delay) == TRUE

\* the backoff timer fires: continue (i++) and the loop head
Fires(c) ==
    /\ pc[c] = "sleep"
    /\ IF TimerResolves(waited[c][Len(waited[c])])
       THEN /\ LoopHead(c, kind[c], i[c] + 1, maxRetries[c])
            /\ UNCHANGED <<calls, kind, maxRetries, initialDelay, lastError,
                           response, errors, waited, warned>>
       ELSE UNCHANGED callVars

\* the backoff timer fires, nothing awaits the call
TimerFires(c) ==
    /\ Fires(c)
    /\ UNCHANGED <<cleanVars, appVars>>

Next ==
    \E c \in CallIds :
        \/ Call(c)
        \/ ApiCallReturns(c)
        \/ ApiCallThrows(c)
        \/ BackendResponds(c)
        \/ BackendFails(c)
        \/ TimerFires(c)

Spec == Init /\ [][Next]_vars

\* two calls in flight, interleaved in every possible way
ConcSpec == ConcInit /\ [][Next]_vars

\* the operation of call c settles
Settles(c) ==
    ApiCallReturns(c) \/ ApiCallThrows(c) \/ BackendResponds(c) \/ BackendFails(c)

\* one call, where every invocation of the operation eventually settles and
\* every armed timer eventually fires
LiveSpec ==
    /\ Init /\ [][Next]_vars
    /\ \A c \in CallIds : WF_vars(Settles(c)) /\ WF_vars(TimerFires(c))

(***************************************************************************)
(* Direct calls with any attempt budget, zero and negative included.       *)
(***************************************************************************)
\* maxRetries is a number parameter: nothing keeps a caller from passing
\* zero or less
NonPositiveBudgets == {-1, 0}

AnyBudgets == NonPositiveBudgets \cup (1..MaxAttemptsBound)

\* callGeminiWithRetry(op, m, d) with any m
CallAnyBudget(c) ==
    /\ \E m \in AnyBudgets :
       \E d \in Delays : Start(c, "invoke", m, d)
    /\ UNCHANGED <<cleanVars, appVars>>

EdgeNext ==
    \E c \in CallIds :
        \/ CallAnyBudget(c)
        \/ ApiCallReturns(c)
        \/ ApiCallThrows(c)
        \/ TimerFires(c)

EdgeSpec == Init /\ [][EdgeNext]_vars

(***************************************************************************)
(* fetchSearchSuggestions, requested twice (for two states of the input    *)
(* box), the two requests overlapping in every possible way.               *)
(***************************************************************************)
SuggestInputs == {"", "a", "ab", "article"}

\* mutation: only the empty input is refused
TooShortEmptyOnly(input) == input = ""

\* if (!input || input.length < 2) return []
TooShort(input) == input = "" \/ Len(input) < 2

SuggestInit == InitCalls({1, 2}) /\ NoClean /\ NoApp

\* fetchSearchSuggestions(input), up to its return or the first await
FetchSuggestions(c) ==
    /\ c \in calls /\ pc[c] = "idle" /\ arg[c] = Undefined
    /\ \E input \in SuggestInputs :
          /\ arg' = [arg EXCEPT ![c] = Str(input)]
          /\ IF TooShort(input)
             THEN /\ fetched' = [fetched EXCEPT ![c] = Resolved(<<>>)]
                  /\ UNCHANGED <<calls, kind, pc, maxRetries, initialDelay, i,
                                 lastError, outcome, response, invocations,
                                 errors, waited, warned>>
             ELSE Start(c, "fetchSearchSuggestions", DefaultMaxRetries,
                        DefaultInitialDelay)
    /\ UNCHANGED <<cleanVars, ui, awaiting>>

SuggestNext ==
    \E c \in CallIds :
        \/ FetchSuggestions(c)
        \/ BackendResponds(c)
        \/ BackendFails(c)
        \/ TimerFires(c)

SuggestSpec == SuggestInit /\ [][SuggestNext]_vars

(***************************************************************************)
(* App: handlers that await one of the operations.  A handler suspended at *)
(* its await resumes in the turn in which the promise settles, so the rest *)
(* of the handler belongs to the step that settles the promise.            *)
(***************************************************************************)
\* mutation: the finally block is missing
handleLabGenerateResumedNoFinally(u, p) ==
    IF p.state = "resolved"
    THEN [u EXCEPT !.studyMaterials = p.value, !.labTab = "brief",
                   !.isLabGenerating = FALSE]
    ELSE u

\* handleLabGenerate after its await: setStudyMaterials(materials);
\* setLabTab('brief') / catch: console.error / finally: setIsLabGenerating(false)
handleLabGenerateResumed(u, p) ==
    IF p.state = "resolved"
    THEN [u EXCEPT !.studyMaterials = p.value, !.labTab = "brief",
                   !.isLabGenerating = FALSE]
    ELSE [u EXCEPT !.isLabGenerating = FALSE]

\* what the cards pass to handleOpenViewer(title, url)
ItemA == [title |-> "Right to Privacy upheld", url |-> "https://www.verdictum.in/privacy"]
ItemB == [title |-> "Indian Contract Act", url |-> "https://www.indiacode.nic.in/act-9-1872"]
ViewerItems == {ItemA, ItemB}

\* the text handleOpenViewer shows when the extraction rejects
ViewerFailure ==
    [text |-> "Failed to extract text. Please use the Direct Source Link below.",
     mentions |-> <<>>]

\* handleOpenViewer after its await: setExtractedData(result) / catch:
\* setExtractedData({ text: "Failed to extract text. ..." }) / finally:
\* setIsExtracting(false)
handleOpenViewerResumed(u, p) ==
    IF p.state = "resolved"
    THEN [u EXCEPT !.extractedData = p.value, !.isExtracting = FALSE]
    ELSE [u EXCEPT !.extractedData = ViewerFailure, !.isExtracting = FALSE]

\* if (data.length < 3)
FewerThanPage(records) == Len(records) < 3

\* loadData(tab, query) after its await: set the list of the tab,
\* if (data.length < 3) setHasMore(false) / finally: setIsInitialLoading(false)
loadDataResumed(u, tab, p) ==
    IF p.state = "resolved"
    THEN [u EXCEPT ![ListOf(tab)] = p.value,
                   !.hasMore = IF FewerThanPage(p.value) THEN FALSE ELSE @,
                   !.isInitialLoading = FALSE]
    ELSE [u EXCEPT !.isInitialLoading = FALSE]

\* the rest of the handler suspended on call c, given the settled promise
Resumed(c, p) ==
    CASE kind[c] = "generateStudyMaterials" -> handleLabGenerateResumed(ui, p)
      [] kind[c] = "extractResourceContent" -> handleOpenViewerResumed(ui, p)
      [] kind[c] \in FetchKinds -> loadDataResumed(ui, arg[c].tab, p)

\* the handler awaiting call c runs on once the call has ended
Continue(c) ==
    IF c \in awaiting /\ pc'[c] \in {"resolved", "rejected"}
    THEN /\ ui' = Resumed(c, fetched'[c])
         /\ awaiting' = awaiting \ {c}
         /\ UNCHANGED arg
    ELSE UNCHANGED appVars

\* generateContent resolves for an operation a handler awaits
AppResponds(c) == Responds(c) /\ Continue(c) /\ UNCHANGED cleanVars

\* generateContent rejects for an operation a handler awaits
AppFails(c) == Fails(c) /\ Continue(c) /\ UNCHANGED cleanVars

\* the backoff timer of an operation a handler awaits fires
AppTimerFires(c) == Fires(c) /\ Continue(c) /\ UNCHANGED cleanVars

\* the call ids not used yet are taken in order
NextCall(c) == c \in calls /\ pc[c] = "idle" /\ \A b \in calls : b < c => pc[b] # "idle"

(***************************************************************************)
(* The study lab: two generations, one after the other.                    *)
(***************************************************************************)
LabInputs == {"", "  ", "Section 10 of the Contract Act"}

LabTabs == {"brief", "flash", "map"}

\* String.prototype.trim, for texts padded with spaces
RECURSIVE TrimStart(_)
TrimStart(s) == IF s # "" /\ Head(s) = " " THEN TrimStart(Tail(s)) ELSE s

RECURSIVE TrimEnd(_)
TrimEnd(s) ==
    IF s # "" /\ SubSeq(s, Len(s), Len(s)) = " "
    THEN TrimEnd(SubSeq(s, 1, Len(s) - 1)) ELSE s

Trim(s) == TrimEnd(TrimStart(s))

\* the lab tab is open, its page loaded
LabInit ==
    /\ InitCalls({1, 2}) /\ NoClean
    /\ ui = [UiInit EXCEPT !.effectPending = FALSE,
                           !.activeTab = "STUDY_LAB", !.isInitialLoading = FALSE,
                           !.hasMore = FALSE]
    /\ arg = [c \in CallIds |-> Undefined]
    /\ awaiting = {}

\* onChange={(e) => setLabInput(e.target.value)}, Clear Workspace
SetLabInput ==
    /\ \E text \in LabInputs : ui' = [ui EXCEPT !.labInput = text]
    /\ UNCHANGED <<callVars, cleanVars, arg, awaiting>>

\* onClick={() => setLabTab(...)}, shown when studyMaterials is set
SetLabTab ==
    /\ ui.studyMaterials # Null
    /\ \E t \in LabTabs : ui' = [ui EXCEPT !.labTab = t]
    /\ UNCHANGED <<callVars, cleanVars, arg, awaiting>>

\* handleLabGenerate up to its await; the button is
\* disabled={isLabGenerating || !labInput.trim()}
handleLabGenerate(c) ==
    /\ NextCall(c)
    /\ ~ui.isLabGenerating
    /\ Trim(ui.labInput) # ""
    /\ ui' = [ui EXCEPT !.isLabGenerating = TRUE, !.studyMaterials = Null]
    /\ arg' = [arg EXCEPT ![c] = Str(ui.labInput)]
    /\ awaiting' = awaiting \cup {c}
    /\ Start(c, "generateStudyMaterials", DefaultMaxRetries, DefaultInitialDelay)
    /\ UNCHANGED cleanVars

LabNext ==
    \/ SetLabInput
    \/ SetLabTab
    \/ \E c \in CallIds :
          \/ handleLabGenerate(c)
          \/ AppResponds(c)
          \/ AppFails(c)
          \/ AppTimerFires(c)

LabSpec == LabInit /\ [][LabNext]_vars

(***************************************************************************)
(* The viewer: two items opened one after the other, the first extraction  *)
(* possibly still running when the second starts.                          *)
(***************************************************************************)
\* the first page is loaded, no viewer open
ViewerInit ==
    /\ InitCalls({1, 2}) /\ NoClean
    /\ ui = [UiInit EXCEPT !.effectPending = FALSE, !.isInitialLoading = FALSE]
    /\ arg = [c \in CallIds |-> Undefined]
    /\ awaiting = {}

\* handleOpenViewer(title, url) up to its await; the buttons that call it
\* lie under the viewer while one is open
handleOpenViewer(c) ==
    /\ NextCall(c)
    /\ ui.viewerItem = Null
    /\ \E item \in ViewerItems :
          /\ ui' = [ui EXCEPT !.viewerItem = item, !.extractedData = Null,
                              !.isExtracting = TRUE, !.showAppearanceMenu = FALSE]
          /\ arg' = [arg EXCEPT ![c] = item]
    /\ awaiting' = awaiting \cup {c}
    /\ Start(c, "extractResourceContent", DefaultMaxRetries, DefaultInitialDelay)
    /\ UNCHANGED cleanVars

\* onClick={() => setViewerItem(null)}
CloseViewer ==
    /\ ui.viewerItem # Null
    /\ ui' = [ui EXCEPT !.viewerItem = Null]
    /\ UNCHANGED <<callVars, cleanVars, arg, awaiting>>

ViewerNext ==
    \/ CloseViewer
    \/ \E c \in CallIds :
          \/ handleOpenViewer(c)
          \/ AppResponds(c)
          \/ AppFails(c)
          \/ AppTimerFires(c)

ViewerSpec == ViewerInit /\ [][ViewerNext]_vars

(***************************************************************************)
(* Loading the lists: the effect on [activeTab], the tab buttons, the      *)
(* jumps from the reader and the search box, each of which calls loadData. *)
(***************************************************************************)
Tabs == ContentTabs \cup StaticTabs

\* the fetch loadData awaits for a content tab
FetcherOf(tab) ==
    CASE tab = "NEWS" -> "fetchLegalNews"
      [] tab \in {"ACADEMY", "ARTICLES"} -> "fetchAcademyArticles"
      [] tab = "TAMIL_NADU" -> "fetchTamilNaduLegalData"
      [] tab = "SUPREME_COURT" -> "fetchSupremeCourtData"
      [] tab = "JUDGMENTS" -> "fetchLandmarkJudgments"
      [] tab = "BARE_ACTS" -> "fetchBareActs"

\* an extraction that names an act and a judgment
ExtractionWithMentions ==
    [text |-> "Section 10 of the Indian Contract Act, see Puttaswamy",
     mentions |-> << [name |-> "Indian Contract Act", type |-> "act"],
                     [name |-> "Puttaswamy", type |-> "judgment"] >>]

\* the names of the mentions of a given type
Mentioned(type) ==
    {ui.extractedData.mentions[k].name :
        k \in {n \in DOMAIN ui.extractedData.mentions :
                  ui.extractedData.mentions[n].type = type}}

\* the app has just rendered for the first time, or its news are loaded and
\* the reader shows an extraction with mentions, or the acts are on display
LoadInit ==
    /\ InitCalls({1, 2}) /\ NoClean
    /\ ui \in {UiInit,
                [UiInit EXCEPT !.effectPending = FALSE,
                               !.isInitialLoading = FALSE,
                               !.hasMore = FALSE,
                               !.news = <<GoodNews>>,
                               !.viewerItem = ItemA,
                               !.extractedData = ExtractionWithMentions],
                [UiInit EXCEPT !.effectPending = FALSE,
                               !.activeTab = "BARE_ACTS",
                               !.isInitialLoading = FALSE,
                               !.hasMore = FALSE,
                               !.acts = <<GoodAct>>]}
    /\ arg = [c \in CallIds |-> Undefined]
    /\ awaiting = {}

\* loadData(tab, query) up to its return or its await, from App state u
loadData(c, u, tab, query) ==
    IF tab \in StaticTabs
    THEN /\ ui' = [u EXCEPT !.isInitialLoading = FALSE, !.hasMore = FALSE]
         /\ UNCHANGED <<callVars, arg, awaiting>>
    ELSE /\ NextCall(c)
         /\ ui' = [u EXCEPT !.isInitialLoading = TRUE, !.hasMore = TRUE]
         /\ arg' = [arg EXCEPT ![c] = [tab |-> tab, query |-> query, page |-> 1]]
         /\ awaiting' = awaiting \cup {c}
         /\ Start(c, FetcherOf(tab), DefaultMaxRetries, DefaultInitialDelay)

\* useEffect(() => { setPage(1); setHasMore(true); loadData(activeTab, searchQuery) }, [activeTab])
TabEffect(c) ==
    /\ ui.effectPending
    /\ loadData(c, [ui EXCEPT !.effectPending = FALSE, !.page = 1, !.hasMore = TRUE],
                ui.activeTab, ui.searchQuery)
    /\ UNCHANGED cleanVars

\* a sidebar button: setActiveTab(item.id); the sidebar lies under the reader
SelectTab ==
    /\ ~ui.effectPending
    /\ ui.viewerItem = Null
    /\ \E tab \in Tabs :
          ui' = [ui EXCEPT !.activeTab = tab, !.effectPending = (tab # ui.activeTab)]
    /\ UNCHANGED <<callVars, cleanVars, arg, awaiting>>

\* handleActJump(actName), from a mention in the reader
handleActJump(c) ==
    /\ ~ui.effectPending
    /\ ui.viewerItem # Null /\ ui.extractedData # Null /\ ~ui.isExtracting
    /\ \E actName \in Mentioned("act") :
          loadData(c, [ui EXCEPT !.searchQuery = actName,
                                 !.activeTab = "BARE_ACTS",
                                 !.effectPending = (ui.activeTab # "BARE_ACTS"),
                                 !.viewerItem = Null],
                   "BARE_ACTS", actName)
    /\ UNCHANGED cleanVars

\* handleJudgmentJump(caseName), from a mention in the reader
handleJudgmentJump(c) ==
    /\ ~ui.effectPending
    /\ ui.viewerItem # Null /\ ui.extractedData # Null /\ ~ui.isExtracting
    /\ \E caseName \in Mentioned("judgment") :
          loadData(c, [ui EXCEPT !.searchQuery = caseName,
                                 !.activeTab = "JUDGMENTS",
                                 !.effectPending = (ui.activeTab # "JUDGMENTS"),
                                 !.viewerItem = Null],
                   "JUDGMENTS", caseName)
    /\ UNCHANGED cleanVars

\* onKeyDown: e.key === 'Enter' && loadData(LegalTab.BARE_ACTS, searchQuery)
SearchEnter(c) ==
    /\ ~ui.effectPending
    /\ ui.viewerItem = Null
    /\ ui.activeTab = "BARE_ACTS"
    /\ loadData(c, ui, "BARE_ACTS", ui.searchQuery)
    /\ UNCHANGED cleanVars

\* the effect due runs before anything else does
LoadResponds(c) == ~ui.effectPending /\ AppResponds(c)

LoadFails(c) == ~ui.effectPending /\ AppFails(c)

LoadTimerFires(c) == ~ui.effectPending /\ AppTimerFires(c)

LoadNext ==
    \/ SelectTab
    \/ \E c \in CallIds :
          \/ TabEffect(c)
          \/ handleActJump(c)
          \/ handleJudgmentJump(c)
          \/ SearchEnter(c)
          \/ LoadResponds(c)
          \/ LoadFails(c)
          \/ LoadTimerFires(c)

LoadSpec == LoadInit /\ [][LoadNext]_vars

(***************************************************************************)
(* cleanLegalData called on its own, on batches of well-formed and         *)
(* malformed entries.                                                      *)
(***************************************************************************)
\* a second title-like field carries the error text
HiddenErrorAct ==
    Rec([title |-> Str("Contract law digest"),
         name |-> Str("Oops - Access Denied"),
         summary |-> Str("Digest of provisions"),
         url |-> Str("https://www.indiacode.nic.in/handle/2")])
\* a blocklisted name in the path of a URL on another host
PathMentionNews ==
    Rec([title |-> Str("Media roundup"),
         summary |-> Str("Coverage compared"),
         url |-> Str("https://www.verdictum.in/on-livelaw.in")])
\* begins with the letters http, yet has no scheme
SchemeLookalikeNews ==
    Rec([title |-> Str("Server directives"),
         summary |-> Str("Reference manual"),
         url |-> Str("httpd.apache.org/docs/2.4/core")])
NoSchemeNews ==
    Rec([title |-> Str("Cause list"),
         summary |-> Str("Daily list"),
         url |-> Str("www.verdictum.in/cause-list")])
EllipsisNews ==
    Rec([title |-> Str("Collegium note"),
         summary |-> Str("Resolution text"),
         url |-> Str("https://www.verdictum.in/colle...")])
GlyphNews ==
    Rec([title |-> Str("Bench roster"),
         summary |-> Str("Roster change"),
         url |-> Str("https://www.verdictum.in/rosterâ€¦")])
ExampleNews ==
    Rec([title |-> Str("Sample order"),
         summary |-> Str("Order copy"),
         url |-> Str("https://www.Example.com/order/1")])
PlaceholderNews ==
    Rec([title |-> Str("Draft rules"),
         summary |-> Str("Rules notified"),
         url |-> Str("https://www.verdictum.in/placeholder")])
\* valid primary URL, bad secondary URL
SecondaryBadArticle ==
    Rec([title |-> Str("Arbitration review"),
         summary |-> Str("Academy paper"),
         url |-> Str("https://www.verdictum.in/arbitration"),
         downloadUrl |-> Str("ftp://nja.gov.in/paper.pdf")])
\* a URL field holding a number
NumberUrlAct ==
    Rec([name |-> Str("Evidence Act"),
         description |-> Str("Law of evidence"),
         sourceUrl |-> Num("1872")])
\* a text field holding a number
NumberTitleNews ==
    Rec([title |-> Num("404"),
         summary |-> Str("Status page"),
         url |-> Str("https://www.verdictum.in/status")])
\* a blocked and invalid first URL, then a number
BlockedThenNumberNews ==
    Rec([title |-> Str("Paywalled story"),
         summary |-> Str("Subscriber only"),
         url |-> Str("livelaw.in/x"),
         link |-> Num("7")])

CleanPool ==
    RecordPool \cup
    {HiddenErrorAct, PathMentionNews, NoSchemeNews, SchemeLookalikeNews,
     EllipsisNews, GlyphNews,
     ExampleNews, PlaceholderNews, SecondaryBadArticle, NumberUrlAct,
     NumberTitleNews, BlockedThenNumberNews}

\* the batches cleanLegalData is called with
CleanBatches == {b : b \in UNION {[1..n -> CleanPool] : n \in 0..MaxBatch}}

CleanInit ==
    /\ InitCalls({})
    /\ spc = "ready"
    /\ batch \in CleanBatches
    /\ given = batch
    /\ cleaned = NoOutcome
    /\ recleaned = NoOutcome
    /\ NoApp

\* what the filter callback leaves of its argument: it only reads the entry
dataAfterFilter(d) == d

\* const result = cleanLegalData(data)
Clean ==
    /\ spc = "ready"
    /\ cleaned' = cleanLegalDataCall(batch)
    /\ batch' = dataAfterFilter(batch)
    /\ spc' = "cleaned"
    /\ UNCHANGED <<given, recleaned>>
    /\ UNCHANGED <<callVars, appVars>>

\* cleanLegalData(result)
CleanAgain ==
    /\ spc = "cleaned"
    /\ cleaned.ok
    /\ recleaned' = cleanLegalDataCall(cleaned.value)
    /\ spc' = "recleaned"
    /\ UNCHANGED <<batch, given, cleaned>>
    /\ UNCHANGED <<callVars, appVars>>

CleanNext == Clean \/ CleanAgain

CleanSpec == CleanInit /\ [][CleanNext]_vars

(***************************************************************************)
(* App: the reader's appearance menu.                                      *)
(***************************************************************************)
\* <input type="range" min="14" max="32" step="1">
SliderValues == 14..32

\* [1.2, 1.6, 2.0].map(lh => ...), in tenths
LineHeights == {12, 16, 20}

\* mutation: the lower clamp is missing
DecreasedUnclamped(size) == size - 2

\* Math.max(14, fontSize - 2)
Decreased(size) == IF size - 2 > 14 THEN size - 2 ELSE 14

\* Math.min(32, fontSize + 2)
Increased(size) == IF size + 2 < 32 THEN size + 2 ELSE 32

\* the reader is open on an item whose extraction has ended
ReaderInit ==
    /\ InitCalls({}) /\ NoClean
    /\ ui = [UiInit EXCEPT !.effectPending = FALSE,
                           !.isInitialLoading = FALSE,
                           !.viewerItem = ItemA,
                           !.extractedData = ExtractionFailure]
    /\ arg = [c \in CallIds |-> Undefined]
    /\ awaiting = {}

\* onClick={() => setShowAppearanceMenu(!showAppearanceMenu)}
ToggleAppearanceMenu ==
    /\ ui.viewerItem # Null
    /\ ui' = [ui EXCEPT !.showAppearanceMenu = ~@]
    /\ UNCHANGED <<callVars, cleanVars, arg, awaiting>>

\* onClick={() => setFontSize(Math.max(14, fontSize - 2))}
DecreaseFont ==
    /\ ui.viewerItem # Null /\ ui.showAppearanceMenu
    /\ ui' = [ui EXCEPT !.fontSize = Decreased(@)]
    /\ UNCHANGED <<callVars, cleanVars, arg, awaiting>>

\* onClick={() => setFontSize(Math.min(32, fontSize + 2))}
IncreaseFont ==
    /\ ui.viewerItem # Null /\ ui.showAppearanceMenu
    /\ ui' = [ui EXCEPT !.fontSize = Increased(@)]
    /\ UNCHANGED <<callVars, cleanVars, arg, awaiting>>

\* onChange={(e) => setFontSize(Number(e.target.value))}
SlideFont ==
    /\ ui.viewerItem # Null /\ ui.showAppearanceMenu
    /\ \E v \in SliderValues : ui' = [ui EXCEPT !.fontSize = v]
    /\ UNCHANGED <<callVars, cleanVars, arg, awaiting>>

\* onClick={() => setLineHeight(lh)}
SetLineHeight ==
    /\ ui.viewerItem # Null /\ ui.showAppearanceMenu
    /\ \E lh \in LineHeights : ui' = [ui EXCEPT !.lineHeight = lh]
    /\ UNCHANGED <<callVars, cleanVars, arg, awaiting>>

ReaderNext ==
    ToggleAppearanceMenu \/ DecreaseFont \/ IncreaseFont \/ SlideFont \/ SetLineHeight

ReaderSpec == ReaderInit /\ [][ReaderNext]_vars

(***************************************************************************)
(* Properties of the Retrying Invoker.                                     *)
(***************************************************************************)
Done(c) == pc[c] \in {"resolved", "rejected"}

\* every invocation of call c so far failed and was classified retryable
AllTransient(c) ==
    /\ invocations[c] >= 1
    /\ Len(errors[c]) = invocations[c]
    /\ \A k \in 1..Len(errors[c]) : isRetryable(errors[c][k])

RECURSIVE Doubled(_, _)
\* base doubled n times
Doubled(base, n) == IF n <= 0 THEN base ELSE 2 * Doubled(base, n - 1)

RECURSIVE SumSeq(_)
SumSeq(q) == IF q = <<>> THEN 0 ELSE Head(q) + SumSeq(Tail(q))

\* C1: for every maxAttempts >= 1 and every sequence of outcomes, one call
\* invokes the operation at most maxAttempts times.
C1_AtMostMaxAttempts ==
    \A c \in calls :
        maxRetries[c] >= 1 => invocations[c] <= maxRetries[c]

\* a call that used its whole budget of at least two attempts
C1_Witness ==
    \E c \in calls :
        /\ maxRetries[c] >= 2
        /\ invocations[c] = maxRetries[c]
        /\ Done(c)

\* C2: when every attempt fails with a retryable error, the call ends only
\* after exactly maxAttempts invocations, and it fails with the error of the
\* last attempt.
C2_ExhaustionThrowsLastError ==
    \A c \in calls :
        (maxRetries[c] >= 1 /\ AllTransient(c) /\ Done(c)) =>
            /\ pc[c] = "rejected"
            /\ invocations[c] = maxRetries[c]
            /\ outcome[c] = Threw(errors[c][maxRetries[c]])

\* an exhausted call whose last error differs from its first
C2_Witness ==
    \E c \in calls :
        /\ AllTransient(c) /\ pc[c] = "rejected"
        /\ maxRetries[c] >= 2
        /\ errors[c][1] # errors[c][maxRetries[c]]

C4_NoWaitAfterFinalAttempt ==
    \A c \in calls :
        maxRetries[c] >= 1 => Len(waited[c]) <= maxRetries[c] - 1

\* C5: the waits of one call are baseDelayMs, 2*baseDelayMs, 4*baseDelayMs,
\* ... in that order (the wait before attempt k, 0-indexed, is
\* baseDelayMs * 2^(k-1)), and attempt k is preceded by exactly k waits.
C5_BackoffDoubles ==
    \A c \in calls :
        /\ \A k \in 1..Len(waited[c]) :
              /\ waited[c][k] = Doubled(initialDelay[c], k - 1)
              /\ k > 1 => waited[c][k] = 2 * waited[c][k - 1]
        /\ pc[c] = "await" => Len(waited[c]) = invocations[c] - 1
        /\ invocations[c] <= Len(waited[c]) + 1

\* the third attempt in flight after waits of 1000 and 2000
C5_Witness ==
    \E c \in calls :
        /\ pc[c] = "await"
        /\ invocations[c] = 3
        /\ waited[c] = <<1000, 2000>>

\* C6: the delays waited during one call sum to at most
\* baseDelayMs * (2^maxAttempts - 1).
C6_TotalBackoffBounded ==
    \A c \in calls :
        SumSeq(waited[c]) <= initialDelay[c] * (Doubled(1, maxRetries[c]) - 1)

\* a call that waited after each of at least two attempts
C6_Witness ==
    \E c \in calls :
        /\ maxRetries[c] >= 2
        /\ Len(waited[c]) = maxRetries[c]
        /\ SumSeq(waited[c]) = initialDelay[c] * (Doubled(1, maxRetries[c]) - 1)

\* the classification of section 4.1: rate limiting (status 429, or "429" or
\* "quota" in the message) or a 5xx status
SpecTransient(e) ==
    \/ (e.hasStatus /\ e.status = 429)
    \/ (e.hasMessage /\ (Includes(e.message, "429") \/ Includes(e.message, "quota")))
    \/ (e.hasStatus /\ e.status >= 500 /\ e.status <= 599)

\* the k-th failure of call c took the retry branch (a backoff wait was armed)
TookRetryBranch(c, k) == k <= Len(waited[c])

\* C7: a failure takes the retry branch exactly when it signals rate limiting
\* or carries a 5xx status; every other failure, a status outside 429 and
\* 500-599 included, is Terminal.
C7_TransientExactlyRateLimitOr5xx ==
    \A c \in calls :
        \A k \in 1..Len(errors[c]) :
            TookRetryBranch(c, k) <=> SpecTransient(errors[c][k])

\* C8: a failure of JSON.parse inside the wrapped operation is Terminal: it
\* is never retried, whatever the payload.
C8_ParseFailureIsTerminal ==
    \A c \in calls :
        \A k \in 1..Len(errors[c]) :
            errors[c][k].name = "SyntaxError" => ~TookRetryBranch(c, k)

(***************************************************************************)
(* Properties of the fetch-batch family.                                   *)
(***************************************************************************)
IsFetch(c) == pc[c] # "idle" /\ kind[c] \in FetchKinds

\* C9: a fetch of the fetch-batch family never rejects; once its backend call
\* has ended it has resolved, and to the empty batch when the call ended in a
\* Terminal failure or in retry exhaustion.
C9_FetchNeverRejects ==
    \A c \in calls :
        IsFetch(c) =>
            /\ fetched[c].state # "rejected"
            /\ Done(c) => fetched[c].state = "resolved"
            /\ pc[c] = "rejected" => fetched[c] = Resolved(<<>>)

\* a fetch whose three attempts all failed and that resolved to the empty batch
C9_Witness ==
    \E c \in calls :
        /\ IsFetch(c)
        /\ pc[c] = "rejected"
        /\ Len(errors[c]) = DefaultMaxRetries
        /\ fetched[c] = Resolved(<<>>)

\* what the sanitizer accepts of every batch
Accepted == [b \in {p.value : p \in BatchTexts} |-> SelectSeq(b, keepItem)]

\* the batch parsed from the latest response of call c
ParsedResponse(c) == JSONParse(JsOr(response[c], Str("[]")).s).value

\* C10: when the backend call of a fetch succeeds, the fetch resolves to
\* exactly the records of that attempt's response that the sanitizer
\* accepts, in order.
C10_FetchReturnsSanitizedResponse ==
    \A c \in calls :
        (IsFetch(c) /\ pc[c] = "resolved") =>
            fetched[c] = Resolved(Accepted[ParsedResponse(c)])

\* a fetch that succeeded on a retry with a response holding one accepted and
\* one rejected record
C10_Witness ==
    \E c \in calls :
        /\ IsFetch(c) /\ pc[c] = "resolved"
        /\ invocations[c] >= 2
        /\ Len(ParsedResponse(c)) = 2
        /\ Len(fetched[c].value) = 1

(***************************************************************************)
(* Properties of the Result Sanitizer.  The rejection rules are restated   *)
(* here as section 4.2 words them, independently of cleanLegalData.        *)
(***************************************************************************)
\* cleanLegalData has returned a batch
HasOutput == spc # "ready" /\ spc # "idle" /\ cleaned.ok

InOutput(r) == \E k \in 1..Len(cleaned.value) : cleaned.value[k] = r

RECURSIVE IsSubsequence(_, _)
\* a is obtained from b by deleting entries
IsSubsequence(a, b) ==
    IF a = <<>> THEN TRUE
    ELSE IF b = <<>> THEN FALSE
    ELSE IF Head(a) = Head(b) THEN IsSubsequence(Tail(a), Tail(b))
    ELSE IsSubsequence(a, Tail(b))

\* a populated text field of the record contains an error-page pattern
AnyTextFieldHasError(r) ==
    \E f \in 1..Len(TextFields) :
        /\ Truthy(r[TextFields[f]])
        /\ \E p \in 1..Len(errorPatterns) :
              Includes(ToLowerCase(ToText(r[TextFields[f]])), errorPatterns[p])

\* no URL-bearing field of the record is populated
NoUrlPopulated(r) == \A f \in 1..Len(UrlFields) : ~Truthy(r[UrlFields[f]])

\* the validity checks of section 4.2 on one URL
UrlInvalid(url) ==
    \/ ~(\/ StartsWith(ToLowerCase(url), "http://")
         \/ StartsWith(ToLowerCase(url), "https://"))
    \/ Len(url) < 15
    \/ Includes(url, "...")
    \/ Includes(url, MisencodedEllipsis)
    \/ Includes(ToLowerCase(url), "example.com")
    \/ Includes(ToLowerCase(url), "placeholder")

AnyUrlInvalid(r) ==
    \E f \in 1..Len(UrlFields) :
        Truthy(r[UrlFields[f]]) /\ UrlInvalid(ToText(r[UrlFields[f]]))

\* position of the first "://" of url, 0 when there is none
SchemeEnd(url) ==
    IF \E k \in 1..(Len(url) - 2) : SubSeq(url, k, k + 2) = "://"
    THEN CHOOSE k \in 1..(Len(url) - 2) :
            /\ SubSeq(url, k, k + 2) = "://"
            /\ \A j \in 1..(k - 1) : SubSeq(url, j, j + 2) # "://"
    ELSE 0

RECURSIVE UpToPath(_)
\* the characters before the first "/", "?" or "#"
UpToPath(str) ==
    IF str = "" \/ Head(str) \in {"/", "?", "#"} THEN ""
    ELSE Head(str) \o UpToPath(Tail(str))

\* the host of a URL, in lower case
Host(url) ==
    ToLowerCase(UpToPath(IF SchemeEnd(url) = 0 THEN url
                         ELSE SubSeq(url, SchemeEnd(url) + 3, Len(url))))

\* the host is a blocklisted domain or a subdomain of one
HostBlocked(url) ==
    \E d \in 1..Len(blockedDomains) :
        LET dom == blockedDomains[d]
            h == Host(url)
        IN  \/ h = dom
            \/ /\ Len(h) > Len(dom)
               /\ SubSeq(h, Len(h) - Len(dom), Len(h)) = "." \o dom

AnyHostBlocked(r) ==
    \E f \in 1..Len(UrlFields) :
        Truthy(r[UrlFields[f]]) /\ HostBlocked(ToText(r[UrlFields[f]]))

\* an entry that is not a well-formed record: null, or a non-string value in
\* a text or URL field
Malformed(r) ==
    \/ r = NullEntry
    \/ \E f \in FieldNames : r[f].t \notin {"string", "undefined"}

\* the four rules of section 4.2 for every entry of the pool
Rules ==
    [r \in CleanPool |->
        [errorText |-> AnyTextFieldHasError(r),
         noUrl |-> NoUrlPopulated(r),
         badUrl |-> AnyUrlInvalid(r),
         blockedHost |-> AnyHostBlocked(r),
         malformed |-> Malformed(r)]]

\* C11: cleanLegalData is a stable filter: its output is a subsequence of
\* its input (same relative order, no record more often than in the input).
C11_OutputIsSubsequence ==
    HasOutput => IsSubsequence(cleaned.value, batch)

\* two different records, both kept, in their input order
C11_Witness ==
    /\ HasOutput
    /\ Len(batch) = 2 /\ batch[1] # batch[2]
    /\ cleaned.value = batch

\* C12: every record of the output is a record of the input with every field
\* unchanged, and the input batch is the same after the call as before it.
C12_NoFabricationNoMutation ==
    (spc # "ready" /\ spc # "idle") =>
        /\ batch = given
        /\ cleaned.ok =>
              \A k \in 1..Len(cleaned.value) :
                  \E j \in 1..Len(given) : given[j] = cleaned.value[k]

\* a batch of which one record was kept and one rejected
C12_Witness ==
    /\ HasOutput
    /\ Len(given) = 2
    /\ Len(cleaned.value) = 1
    /\ cleaned.value[1].title.t = "string"

\* C13: cleanLegalData applied to its own output returns that output.
C13_Idempotent ==
    spc = "recleaned" => recleaned = cleaned

\* a second pass over an output that the first pass had shortened
C13_Witness ==
    /\ spc = "recleaned"
    /\ Len(cleaned.value) >= 1
    /\ Len(cleaned.value) < Len(batch)
    /\ recleaned.ok

\* C14: a record is rejected whenever any of its populated text fields
\* contains an error-page pattern, whichever field it is.
C14_AnyTextFieldRejects ==
    HasOutput =>
        \A k \in 1..Len(batch) : Rules[batch[k]].errorText => ~InOutput(batch[k])

\* C15: among records that no other rule rejects, a record is rejected
\* exactly when the host of one of its populated URLs is blocklisted; a
\* blocklisted name in the path alone does not reject it.
C15_BlocklistByHost ==
    HasOutput =>
        \A k \in 1..Len(batch) :
            (/\ ~Rules[batch[k]].errorText
             /\ ~Rules[batch[k]].noUrl
             /\ ~Rules[batch[k]].badUrl) =>
                (~InOutput(batch[k]) <=> Rules[batch[k]].blockedHost)

\* C16: a record is rejected when any one of its populated URL fields fails
\* a validity check, also when its primary URL is valid.
C16_AnyBadUrlRejects ==
    HasOutput =>
        \A k \in 1..Len(batch) : Rules[batch[k]].badUrl => ~InOutput(batch[k])

\* C17: a record with no URL-bearing field populated is rejected, whatever
\* its text.
C17_NoUrlRejected ==
    HasOutput =>
        \A k \in 1..Len(batch) : Rules[batch[k]].noUrl => ~InOutput(batch[k])

\* a record without URL rejected next to a record that was kept
C17_Witness ==
    /\ HasOutput
    /\ \E k \in 1..Len(batch) : batch[k] = NoUrlNews
    /\ ~InOutput(NoUrlNews)
    /\ Len(cleaned.value) = 1

\* C18: a record survives if and only if none of the four rejection rules
\* applies to it.
C18_SurvivesIffNoRuleApplies ==
    HasOutput =>
        \A k \in 1..Len(batch) :
            InOutput(batch[k]) <=>
                ~(\/ Rules[batch[k]].errorText
                  \/ Rules[batch[k]].noUrl
                  \/ Rules[batch[k]].badUrl
                  \/ Rules[batch[k]].blockedHost)

\* C19: cleanLegalData never raises: for every batch, malformed entries
\* included, it returns a batch from which the malformed entries are dropped.
C19_NeverRaises ==
    (spc # "ready" /\ spc # "idle") =>
        /\ cleaned.ok
        /\ \A k \in 1..Len(batch) : Rules[batch[k]].malformed => ~InOutput(batch[k])

(***************************************************************************)
(* C20: calls in flight together.                                          *)
(***************************************************************************)
\* the failures of call c's own operation, in order, followed by the success
\* that ended the call, if one did
OwnOutcomes(c) ==
    [k \in 1..Len(errors[c]) |-> Threw(errors[c][k])]
    \o (IF Done(c) /\ outcome[c].ok
        THEN <<IF kind[c] \in FetchKinds THEN OperationOutcome(response[c])
               ELSE outcome[c]>>
        ELSE <<>>)

RECURSIVE RunAlone(_, _, _, _)
\* the invoker run by itself from attempt idx on, fed the operation outcomes
\* ops: the number of attempts it makes, the delays it waits and its result
\* (no result yet when ops ends before the call does)
RunAlone(idx, max, delay, ops) ==
    IF ~(idx < max)
    THEN [invocations |-> 0, waited |-> <<>>,
          outcome |-> Threw(IF idx = 0 THEN UndefinedError ELSE ops[idx].error)]
    ELSE IF idx + 1 > Len(ops)
    THEN [invocations |-> 0, waited |-> <<>>, outcome |-> NoOutcome]
    ELSE LET o == ops[idx + 1]
         IN  IF o.ok
             THEN [invocations |-> 1, waited |-> <<>>, outcome |-> o]
             ELSE IF isRetryable(o.error)
             THEN LET rest == RunAlone(idx + 1, max, delay, ops)
                  IN  [invocations |-> 1 + rest.invocations,
                       waited |-> <<delay * Pow2(idx)>> \o rest.waited,
                       outcome |-> rest.outcome]
             ELSE [invocations |-> 1, waited |-> <<>>, outcome |-> Threw(o.error)]

Alone(c) == RunAlone(0, maxRetries[c], initialDelay[c], OwnOutcomes(c))

\* C20: whatever the interleaving of the calls in flight, each call's attempts,
\* delays waited and final result are those of a run of that call alone on
\* the outcomes of its own operation; while it is in flight its delays and its
\* last error are its own.
C20_CallsIndependent ==
    \A c \in calls :
        /\ Done(c) =>
              /\ invocations[c] = Alone(c).invocations
              /\ invocations[c] = Len(OwnOutcomes(c))
              /\ waited[c] = Alone(c).waited
              /\ outcome[c] = Alone(c).outcome
        /\ pc[c] \in {"await", "sleep"} =>
              /\ waited[c] = Alone(c).waited
              /\ outcome[c] = NoOutcome
              /\ errors[c] # <<>> => lastError[c] = errors[c][Len(errors[c])]

\* call 1 has ended in retry exhaustion while call 2, in flight, waits after a
\* different failure of its own
C20_Witness ==
    /\ Cardinality(calls) > 1
    /\ pc[1] = "rejected" /\ Len(errors[1]) = maxRetries[1] /\ Len(waited[1]) >= 1
    /\ pc[2] = "sleep" /\ Len(errors[2]) >= 1
    /\ lastError[2] # outcome[1].error
    /\ initialDelay[1] # initialDelay[2]

(***************************************************************************)
(* C21..C25: termination, effects and budgets of callGeminiWithRetry.      *)
(***************************************************************************)
\* call c ended with the result of its operation
EndedInSuccess(c) ==
    /\ pc[c] = "resolved" /\ outcome[c].ok
    /\ invocations[c] = Len(errors[c]) + 1

\* call c ended with the error of an attempt that was not retried
EndedInTerminal(c) ==
    /\ pc[c] = "rejected" /\ ~outcome[c].ok
    /\ errors[c] # <<>>
    /\ ~isRetryable(errors[c][Len(errors[c])])
    /\ outcome[c].error = errors[c][Len(errors[c])]

\* call c ended because its attempts ran out
EndedInExhaustion(c) ==
    /\ pc[c] = "rejected" /\ ~outcome[c].ok
    /\ invocations[c] = maxRetries[c]
    /\ Len(errors[c]) = maxRetries[c]
    /\ \A k \in 1..Len(errors[c]) : isRetryable(errors[c][k])

\* C21: under the two provisos (operations settle, timers fire) every call
\* that was started ends, and it ends in exactly one of success, a Terminal
\* failure or retry exhaustion.
C21_EventuallyResolves ==
    /\ \A c \in CallIds : (pc[c] \in {"await", "sleep"}) ~> Done(c)
    /\ [](\A c \in CallIds :
            Done(c) =>
                \/ EndedInSuccess(c) /\ ~EndedInTerminal(c) /\ ~EndedInExhaustion(c)
                \/ ~EndedInSuccess(c) /\ EndedInTerminal(c) /\ ~EndedInExhaustion(c)
                \/ ~EndedInSuccess(c) /\ ~EndedInTerminal(c) /\ EndedInExhaustion(c))

\* a call that went through two waits and then succeeded on its third attempt
C21_Witness ==
    /\ EndedInSuccess(1)
    /\ Len(waited[1]) = 2
    /\ invocations[1] = 3

\* C22: a call has no effect besides invoking the operation and waiting; in
\* particular it writes nothing to the console on any path.
C22_NoOutput ==
    \A c \in calls : warned[c] = <<>>

\* C23: a call that succeeds on attempt k after k-1 retried failures returns
\* that attempt's result and nothing of the earlier errors, after exactly k
\* invocations and k-1 waits; once it has returned, it invokes and waits no
\* more.
C23_SuccessAfterRetries ==
    /\ [](\A c \in calls :
            pc[c] = "resolved" =>
                /\ outcome[c].ok /\ outcome[c].error = UndefinedError
                /\ invocations[c] = Len(errors[c]) + 1
                /\ invocations[c] <= maxRetries[c]
                /\ Len(waited[c]) = Len(errors[c])
                /\ \A k \in 1..Len(errors[c]) : isRetryable(errors[c][k])
                /\ kind[c] \in FetchKinds =>
                       outcome[c].value = cleanLegalData(ParsedResponse(c))
                /\ kind[c] = "invoke" => outcome[c].value \in GenericValues)
    /\ [][\A c \in calls :
            pc[c] = "resolved" =>
                /\ invocations'[c] = invocations[c]
                /\ waited'[c] = waited[c]
                /\ outcome'[c] = outcome[c]]_vars

\* a fetch that failed twice, was retried twice and then returned records
C23_Witness ==
    /\ pc[1] = "resolved" /\ kind[1] \in FetchKinds
    /\ Len(errors[1]) = 2 /\ invocations[1] = 3
    /\ outcome[1].value # <<>>

C30_FontSizeInRange ==
    ui.fontSize \in 14..32

\* the size at the lower end, the menu with the controls open and another
\* line spacing chosen
C30_Witness ==
    /\ ui.showAppearanceMenu
    /\ ui.fontSize = 14
    /\ ui.lineHeight = 20
(***************************************************************************)
(* C25: called with maxAttempts zero or negative, the invoker never        *)
(* invokes the operation, never waits, and the call rejects with the       *)
(* undefined value; with maxAttempts of one or more the operation is       *)
(* invoked at least once.                                                  *)
(***************************************************************************)
C25_NoAttemptBudget ==
    \A c \in calls :
        pc[c] # "idle" =>
            /\ maxRetries[c] <= 0 =>
                   /\ invocations[c] = 0
                   /\ waited[c] = <<>>
                   /\ pc[c] = "rejected"
                   /\ outcome[c] = Threw(UndefinedError)
            /\ maxRetries[c] >= 1 => invocations[c] >= 1

\* a call with budget zero has ended
C25_Witness ==
    \E c \in calls : maxRetries[c] = 0 /\ pc[c] = "rejected"

(***************************************************************************)
(* C29: fetchSearchSuggestions with an empty input or one shorter than two *)
(* characters resolves to the empty list and issues no backend request;    *)
(* with a longer input it never rejects, and resolves to the empty list    *)
(* when the invoker fails.                                                 *)
(***************************************************************************)
C29_SuggestionsNeverReject ==
    \A c \in calls :
        arg[c] # Undefined =>
            /\ fetched[c].state # "rejected"
            /\ Len(arg[c].s) < 2 =>
                   /\ fetched[c] = Resolved(<<>>)
                   /\ invocations[c] = 0
                   /\ pc[c] = "idle"
            /\ (Len(arg[c].s) >= 2 /\ pc[c] = "rejected") =>
                   fetched[c] = Resolved(<<>>)

\* one request refused for a one-character input, the other one failed on
\* its third attempt
C29_Witness ==
    /\ arg[1] = Str("a") /\ fetched[1] = Resolved(<<>>)
    /\ arg[2] = Str("article") /\ pc[2] = "rejected"
    /\ invocations[2] = DefaultMaxRetries

(***************************************************************************)
(* C26: generateStudyMaterials has no fallback, the failure of its backend *)
(* call reaches the caller; in handleLabGenerate such a failure leaves     *)
(* studyMaterials null and the lab tab unchanged, and isLabGenerating is   *)
(* false again after every generation, successful or not.                  *)
(***************************************************************************)
\* the generation awaiting call c ends in this step
GenerationEnds(c) == c \in awaiting /\ c \notin awaiting'

C26_LabFailurePropagates ==
    /\ [](\A c \in calls :
            /\ (kind[c] = "generateStudyMaterials" /\ pc[c] = "rejected") =>
                   fetched[c] = Rejected(outcome[c].error)
            /\ ui.isLabGenerating <=> awaiting # {})
    /\ [][/\ \A c \in calls :
               /\ GenerationEnds(c) => ~ui'.isLabGenerating
               /\ (GenerationEnds(c) /\ pc'[c] = "rejected") =>
                      /\ ui'.studyMaterials = Null
                      /\ ui'.labTab = ui.labTab
          /\ (ui.isLabGenerating /\ ui'.labTab # ui.labTab) =>
                 \E c \in calls : GenerationEnds(c) /\ pc'[c] = "resolved"]_vars

\* a second generation has failed after the user had moved to the
\* flashcards of the first
C26_Witness ==
    /\ pc[1] = "resolved" /\ pc[2] = "rejected"
    /\ awaiting = {}
    /\ ~ui.isLabGenerating
    /\ ui.studyMaterials = Null
    /\ ui.labTab = "flash"

(***************************************************************************)
(* C27: the extracted content on display belongs to the item being viewed; *)
(* when item B is opened while the extraction of item A is running, the    *)
(* final extractedData is the result of B, and isExtracting is false only  *)
(* once the extraction of B has completed.                                 *)
(***************************************************************************)
\* what an extraction for an item can put on display
ResultsFor(item) ==
    {OperationOf("extractResourceContent", text).value :
        text \in {t \in AppTexts("extractResourceContent", item) :
                     OperationOf("extractResourceContent", t).ok}}
    \cup {ExtractionFailure, ViewerFailure}

\* the call of the handleOpenViewer that ran last
LastOpened == CHOOSE c \in calls : pc[c] # "idle" /\ \A b \in calls : pc[b] # "idle" => b <= c

C27_DisplayedBelongsToViewed ==
    (\E c \in calls : pc[c] # "idle") =>
        /\ (ui.viewerItem # Null /\ ui.extractedData # Null) =>
               ui.extractedData \in ResultsFor(ui.viewerItem)
        /\ awaiting = {} => ui.extractedData \in ResultsFor(arg[LastOpened])
        /\ ~ui.isExtracting => LastOpened \notin awaiting

(***************************************************************************)
(* C28: loadData always ends with isInitialLoading false; for ABOUT and    *)
(* STUDY_LAB it issues no fetch and sets hasMore false; for a content tab  *)
(* it issues one fetch for page 1, stores the batch in the list of that    *)
(* tab only, and sets hasMore false exactly when the batch has fewer than  *)
(* 3 records; while any loadData is in flight isInitialLoading is true.    *)
(***************************************************************************)
Lists == {"news", "articles", "tnData", "scData", "judgments", "acts"}

\* the calls started in this step
StartedNow == {c \in calls : pc[c] = "idle" /\ pc'[c] # "idle"}

\* the loadData awaiting call c ends in this step
LoadEnds(c) == c \in awaiting /\ c \notin awaiting'

\* loadData ran for a tab without lists in this step
StaticLoad ==
    /\ StartedNow = {}
    /\ awaiting' = awaiting
    /\ \/ ui.effectPending /\ ~ui'.effectPending
       \/ ui.viewerItem # Null /\ ui'.viewerItem = Null

\* what a loadData does from its call to its end
LoadDataSteps ==
    /\ StaticLoad => ~ui'.isInitialLoading /\ ~ui'.hasMore
    /\ Cardinality(StartedNow) <= 1
    /\ \A c \in StartedNow :
          /\ awaiting' = awaiting \cup {c}
          /\ arg'[c].tab \in ContentTabs
          /\ arg'[c].page = 1
          /\ kind'[c] = FetcherOf(arg'[c].tab)
    /\ \A c \in calls :
          LoadEnds(c) =>
              /\ ~ui'.isInitialLoading
              /\ ui'[ListOf(arg[c].tab)] = fetched'[c].value
              /\ \A l \in Lists \ {ListOf(arg[c].tab)} : ui'[l] = ui[l]
              /\ ui'.hasMore = IF Len(fetched'[c].value) < 3 THEN FALSE ELSE ui.hasMore

\* the first four parts of the statement
LoadDataEndsAsStated == [][LoadDataSteps]_vars

C28_LoadingWhileInFlight ==
    /\ [][LoadDataSteps]_vars
    /\ [](awaiting # {} => ui.isInitialLoading)

====
